---- MODULE Spec2Model ----
(***************************************************************************)
(* Neo Shop product catalog: the ApiService data access layer              *)
(* (api.js, kept as src/unnamed/part_000) and the ProductCatalog           *)
(* controller (src/assets/js/app.js).                                      *)
(*                                                                         *)
(* JavaScript values are tagged records: [t |-> "null"], [t |-> "num",     *)
(* v |-> n], [t |-> "str", v |-> <<chars>>], ...  Strings are sequences of *)
(* one-character strings.  Numbers are fixed-point integers counting       *)
(* units of 1/Scale, so 10.5 is 1050 when Scale = 100.                     *)
(***************************************************************************)
EXTENDS Integers, Sequences, FiniteSets, TLC

\* ------------------------------------------------------------------------
\* Bounds of the model
\* ------------------------------------------------------------------------
MaxFracDigits == 2   \* decimal digits kept by the fixed-point numbers
MaxBatch == 2        \* longest results array the API delivers
MaxFileLen == 2      \* longest products array of data/products.json
MaxLoads == 2        \* loads accepted by loadProducts in one behaviour

Scale == 10 ^ MaxFracDigits

\* ------------------------------------------------------------------------
\* JavaScript values
\* ------------------------------------------------------------------------
Null == [t |-> "null"]
Undef == [t |-> "undefined"]
NaN == [t |-> "nan"]
Bool(b) == [t |-> "bool", v |-> b]
Num(n) == [t |-> "num", v |-> n]
NumI(i) == [t |-> "num", v |-> i * Scale]
Str(s) == [t |-> "str", v |-> s]
Arr(s) == [t |-> "arr", v |-> s]

\* typeof x
TypeOf(x) ==
    CASE x.t = "undefined" -> "undefined"
      [] x.t = "bool" -> "boolean"
      [] x.t = "num" -> "number"
      [] x.t = "nan" -> "number"
      [] x.t = "str" -> "string"
      [] OTHER -> "object"

\* ToBoolean(x): the test of !x, x || y, x && y and Boolean(x)
Truthy(x) ==
    CASE x.t = "undefined" -> FALSE
      [] x.t = "null" -> FALSE
      [] x.t = "nan" -> FALSE
      [] x.t = "bool" -> x.v
      [] x.t = "num" -> x.v # 0
      [] x.t = "str" -> Len(x.v) > 0
      [] OTHER -> TRUE

IsArray(x) == x.t = "arr"

\* x === true
IsTrue(x) == x.t = "bool" /\ x.v

IsStr(x, s) == x.t = "str" /\ x.v = s

\* x > 0 with x converted by ToNumber: null is 0, NaN and undefined compare false
GtZero(x) ==
    CASE x.t = "num" -> x.v > 0
      [] x.t = "bool" -> x.v
      [] OTHER -> FALSE

\* x >= 0 on a value whose typeof is already known to be "number"
GeZero(x) == x.t = "num" /\ x.v >= 0

\* ------------------------------------------------------------------------
\* Strings
\* ------------------------------------------------------------------------
DigitChars == <<"0", "1", "2", "3", "4", "5", "6", "7", "8", "9">>

IsDigit(c) == \E d \in 1..10 : DigitChars[d] = c

DigitOf(c) == (CHOOSE d \in 1..10 : DigitChars[d] = c) - 1

IsSpace(c) == c = " "

RECURSIVE TrimStart(_)
TrimStart(s) ==
    IF Len(s) > 0 /\ IsSpace(s[1]) THEN TrimStart(Tail(s)) ELSE s

RECURSIVE TrimEnd(_)
TrimEnd(s) ==
    IF Len(s) > 0 /\ IsSpace(s[Len(s)]) THEN TrimEnd(SubSeq(s, 1, Len(s) - 1)) ELSE s

\* String.prototype.trim
Trim(s) == TrimEnd(TrimStart(s))

\* String.prototype.replace(a, b) with a string pattern: the first occurrence only
RECURSIVE ReplaceFirst(_, _, _)
ReplaceFirst(s, a, b) ==
    IF Len(s) = 0 THEN s
    ELSE IF s[1] = a THEN <<b>> \o Tail(s)
    ELSE <<s[1]>> \o ReplaceFirst(Tail(s), a, b)

UpperChars == <<"A", "B", "C", "D", "E", "F", "G", "H", "I", "J", "K", "L", "M",
                "N", "O", "P", "Q", "R", "S", "T", "U", "V", "W", "X", "Y", "Z">>
LowerChars == <<"a", "b", "c", "d", "e", "f", "g", "h", "i", "j", "k", "l", "m",
                "n", "o", "p", "q", "r", "s", "t", "u", "v", "w", "x", "y", "z">>

LowerChar(c) ==
    IF \E i \in 1..Len(UpperChars) : UpperChars[i] = c
    THEN LowerChars[CHOOSE i \in 1..Len(UpperChars) : UpperChars[i] = c]
    ELSE c

\* String.prototype.toLowerCase
ToLowerCase(s) == [i \in 1..Len(s) |-> LowerChar(s[i])]

\* String.prototype.includes, and the test of a message for a part
Contains(msg, sub) ==
    \E i \in 1..(Len(msg) + 1) :
        /\ i + Len(sub) - 1 <= Len(msg)
        /\ SubSeq(msg, i, i + Len(sub) - 1) = sub

\* ------------------------------------------------------------------------
\* parseFloat and parseInt
\* ------------------------------------------------------------------------
RECURSIVE DigitsEnd(_, _)
DigitsEnd(s, i) ==
    IF i <= Len(s) /\ IsDigit(s[i]) THEN DigitsEnd(s, i + 1) ELSE i

RECURSIVE DigitsVal(_, _, _)
DigitsVal(s, i, j) ==
    IF j <= i THEN 0 ELSE DigitsVal(s, i, j - 1) * 10 + DigitOf(s[j - 1])

\* value, in units of 1/Scale, of the fraction digits s[i]..s[j-1]
FracVal(s, i, j) ==
    LET k == IF j - i > MaxFracDigits THEN i + MaxFracDigits ELSE j
    IN DigitsVal(s, i, k) * (10 ^ (MaxFracDigits - (k - i)))

\* parseFloat of a string: leading white space, a sign, digits, a point, digits.
\* The strings of the model hold no exponent and no "Infinity".
ParseFloatStr(s0) ==
    LET s == TrimStart(s0)
        hasSign == Len(s) > 0 /\ s[1] \in {"+", "-"}
        neg == Len(s) > 0 /\ s[1] = "-"
        i == IF hasSign THEN 2 ELSE 1
        j == DigitsEnd(s, i)
        hasPoint == j <= Len(s) /\ s[j] = "."
        k == IF hasPoint THEN DigitsEnd(s, j + 1) ELSE j
        nDigits == (j - i) + (IF hasPoint THEN k - (j + 1) ELSE 0)
        mag == DigitsVal(s, i, j) * Scale + (IF hasPoint THEN FracVal(s, j + 1, k) ELSE 0)
    IN IF nDigits = 0 THEN NaN
       ELSE Num(IF neg THEN 0 - mag ELSE mag)

\* parseFloat(x): x is converted to a string first
ParseFloat(x) ==
    CASE x.t = "str" -> ParseFloatStr(x.v)
      [] x.t = "num" -> x
      [] OTHER -> NaN

\* truncation toward zero to a whole number
TruncNum(n) ==
    IF n >= 0 THEN (n \div Scale) * Scale ELSE 0 - (((0 - n) \div Scale) * Scale)

\* parseInt(x)
ParseInt(x) ==
    CASE x.t = "str" ->
            LET s == TrimStart(x.v)
                hasSign == Len(s) > 0 /\ s[1] \in {"+", "-"}
                neg == Len(s) > 0 /\ s[1] = "-"
                i == IF hasSign THEN 2 ELSE 1
                j == DigitsEnd(s, i)
                mag == DigitsVal(s, i, j) * Scale
            IN IF j = i THEN NaN ELSE Num(IF neg THEN 0 - mag ELSE mag)
      [] x.t = "num" -> Num(TruncNum(x.v))
      [] OTHER -> NaN

\* x || y
OrElse(x, y) == IF Truthy(x) THEN x ELSE y

\* ------------------------------------------------------------------------
\* Records: API rows, products, gallery images
\* ------------------------------------------------------------------------
\* a row of the Baserow table as the API delivers it (user_field_names=true)
Row(id, title, subtitle, description, gallery, price, promo, pub, rating, order) ==
    [t |-> "obj", id |-> id, title |-> title, subtitle |-> subtitle,
     description |-> description, gallery |-> gallery, price |-> price,
     promotionalPrice |-> promo, Public |-> pub, Rating |-> rating, order |-> order]

\* a product object of the application (also an entry of data/products.json)
Product(id, title, subtitle, description, gallery, price, promo, pub, rating, order) ==
    [t |-> "obj", id |-> id, title |-> title, subtitle |-> subtitle,
     description |-> description, gallery |-> gallery, price |-> price,
     promotionalPrice |-> promo, public |-> pub, rating |-> rating, order |-> order]

\* a gallery image object of the API: { url: ... }
Image(url) == [t |-> "obj", url |-> url]

\* String(x) for the text fields of a row, which the API delivers as strings
JsString(x) == CASE x.t = "str" -> x.v

\* ------------------------------------------------------------------------
\* ApiService: parsePrice, isValidProduct, transformProduct
\* ------------------------------------------------------------------------
\* parsePrice(price)
ParsePrice(price) ==
    IF ~Truthy(price) \/ IsStr(price, <<"0", ".", "0", "0">>) THEN Null
    ELSE LET numericPrice ==
                 IF TypeOf(price) = "string"
                 THEN ParseFloatStr(ReplaceFirst(price.v, ",", "."))
                 ELSE ParseFloat(price)
         IN IF numericPrice.t = "nan" \/ numericPrice.v <= 0 THEN Null ELSE numericPrice

\* isValidProduct(product)
IsValidProduct(product) ==
    /\ Truthy(product)
    /\ TypeOf(product.id) = "number"
    /\ GtZero(product.id)
    /\ TypeOf(product.title) = "string"
    /\ Len(product.title.v) > 0
    /\ TypeOf(product.description) = "string"
    /\ Len(product.description.v) > 0
    /\ IsArray(product.gallery)
    /\ TypeOf(product.price) = "number"
    /\ GtZero(product.price)
    /\ IsTrue(product.public)

\* image => image.url || image
ImageUrl(image) ==
    IF image.t = "obj" THEN OrElse(image.url, image) ELSE image

\* the statements of transformProduct's try block raise a TypeError: the row is
\* null or undefined, or an entry of its gallery array is
TransformRaises(apiProduct) ==
    \/ apiProduct.t \in {"null", "undefined"}
    \/ /\ IsArray(apiProduct.gallery)
       /\ \E i \in 1..Len(apiProduct.gallery.v) :
              apiProduct.gallery.v[i].t \in {"null", "undefined"}

\* the object transformProduct builds before it validates it
TransformedProduct(apiProduct) ==
    LET gallery == IF IsArray(apiProduct.gallery)
                   THEN Arr([i \in 1..Len(apiProduct.gallery.v) |->
                                ImageUrl(apiProduct.gallery.v[i])])
                   ELSE Arr(<<>>)
    IN Product(
        OrElse(ParseInt(apiProduct.id), NumI(0)),
        Str(Trim(JsString(OrElse(apiProduct.title, Str(<<>>))))),
        IF Truthy(apiProduct.subtitle) THEN Str(Trim(JsString(apiProduct.subtitle))) ELSE Null,
        Str(Trim(JsString(OrElse(apiProduct.description, Str(<<>>))))),
        gallery,
        ParsePrice(apiProduct.price),
        ParsePrice(apiProduct.promotionalPrice),
        Bool(Truthy(apiProduct.Public)),
        OrElse(ParseInt(apiProduct.Rating), Null),
        OrElse(ParseFloat(apiProduct.order), NumI(0)))

\* transformProduct(apiProduct): null for a row that raises or is not valid
TransformProduct(apiProduct) ==
    IF TransformRaises(apiProduct) THEN Null
    ELSE IF ~IsValidProduct(TransformedProduct(apiProduct)) THEN Null
    ELSE TransformedProduct(apiProduct)

\* ------------------------------------------------------------------------
\* Inputs: what the API and the fallback file can deliver
\* ------------------------------------------------------------------------
UrlA == Str(<<"u", "1">>)
UrlB == Str(<<"u", "2">>)

\* valid rows; RowCup and RowJar have the same order
RowMug == Row(NumI(1), Str(<<" ", "M", "u", "g", " ">>), Null, Str(<<"r", "e", "d">>),
              Arr(<<Image(UrlA), UrlB>>), Str(<<"1", "0", ",", "5", "0">>), Null,
              Bool(TRUE), Null, Str(<<"2">>))
RowCup == Row(NumI(2), Str(<<"C", "u", "p">>), Str(<<"m", "u", "g">>), Str(<<"b", "l", "u", "e">>),
              Arr(<<>>), NumI(5), Str(<<"4", ".", "5">>), Bool(TRUE), NumI(4), NumI(1))
RowJar == Row(NumI(3), Str(<<"J", "a", "r">>), Null, Str(<<"r", "e", "d">>),
              Null, Str(<<"7">>), Null, Bool(TRUE), Null, NumI(1))
\* rows that fail isValidProduct
RowNoTitle == Row(NumI(4), Null, Null, Str(<<"r", "e", "d">>),
                  Arr(<<>>), NumI(5), Null, Bool(TRUE), Null, Null)
RowZeroPrice == Row(NumI(5), Str(<<"P", "o", "t">>), Null, Str(<<"r", "e", "d">>),
                    Arr(<<>>), Str(<<"0", ".", "0", "0">>), Null, Bool(TRUE), Null, NumI(0))
RowHidden == Row(NumI(6), Str(<<"P", "a", "n">>), Null, Str(<<"r", "e", "d">>),
                 Arr(<<>>), NumI(5), Null, Bool(FALSE), Null, NumI(0))
\* a row whose gallery holds a null entry: image.url raises
RowBadImage == Row(NumI(7), Str(<<"T", "i", "n">>), Null, Str(<<"r", "e", "d">>),
                   Arr(<<Null>>), NumI(5), Null, Bool(TRUE), Null, NumI(0))

\* the entries a results array is made of; a null entry makes transformProduct raise
AllRows == {RowMug, RowCup, RowJar, RowNoTitle, RowZeroPrice, RowHidden, RowBadImage, Null}

\* the entries of the results arrays the catalog page is run on
RowPool == {RowMug, RowCup, RowJar, RowZeroPrice, Null}

SeqsUpTo(S, n) == UNION {[1..k -> S] : k \in 0..n}

\* the rows of a table and the entries of a file are all different
DistinctSeqsUpTo(S, n) ==
    {s \in SeqsUpTo(S, n) : \A i, j \in 1..Len(s) : i # j => s[i] # s[j]}

Batches == DistinctSeqsUpTo(RowPool, MaxBatch)

AllBatches == SeqsUpTo(AllRows, MaxBatch)

\* entries of data/products.json
FileMug == Product(NumI(1), Str(<<"M", "u", "g">>), Undef, Str(<<"r", "e", "d">>),
                   Arr(<<UrlA>>), NumI(10), Undef, Undef, Undef, NumI(2))
FileFree == Product(NumI(2), Str(<<>>), Undef, Str(<<>>),
                    Arr(<<>>), NumI(0), Undef, Bool(FALSE), Undef, NumI(1))
FileNoId == Product(Undef, Str(<<"J", "a", "r">>), Undef, Str(<<"r", "e", "d">>),
                    Arr(<<>>), NumI(7), Undef, Undef, Undef, Undef)

FilePool == {FileMug, FileFree, FileNoId}

FileLists == DistinctSeqsUpTo(FilePool, MaxFileLen)

\* an HTTP exchange: the request fails, or a response arrives with a status
Statuses == {200, 404, 500}
NetFail == [kind |-> "netfail", status |-> 0]
Http(s) == [kind |-> "http", status |-> s]
Responses == {NetFail} \cup {Http(s) : s \in Statuses}
\* the exchanges the catalog page is run on
PageResponses == {NetFail, Http(200), Http(500)}
NoResponse == [kind |-> "none", status |-> 0]

\* response.ok
Ok(resp) == resp.kind = "http" /\ resp.status \in 200..299

\* a response body: text that response.json() parses to data, or fails to parse
Json(data) == [kind |-> "json", data |-> data]
Unparsable == [kind |-> "unparsable", data |-> Undef]
NoBody == [kind |-> "none", data |-> Undef]

\* the envelope of the rows endpoint: { results: ... }
Envelope(results) == [t |-> "obj", results |-> results]

BadListBodies ==
    {Unparsable, Json(Null), Json(Envelope(Undef)), Json(Envelope(Str(<<"x">>)))}

\* the bodies the catalog page is run on
ListBodies == {Unparsable} \cup {Json(Envelope(Arr(b))) : b \in Batches}

AllListBodies == BadListBodies \cup {Json(Envelope(Arr(b))) : b \in AllBatches}

RowBodies == {Unparsable} \cup {Json(r) : r \in AllRows}

\* the document of data/products.json: { products: ... }
Document(products) == [t |-> "obj", products |-> products]

FileBodies ==
    {Unparsable, Json(Document(Undef))}
        \cup {Json(Document(Arr(l))) : l \in FileLists}

\* ------------------------------------------------------------------------
\* Results of the asynchronous methods, and error messages
\* ------------------------------------------------------------------------
\* a promise settles by returning a value or by throwing an Error with a message;
\* Continue is a method that reached its next await
Return(v) == [kind |-> "return", value |-> v, message |-> <<>>]
Throw(m) == [kind |-> "throw", value |-> Undef, message |-> m]
Continue == [kind |-> "await", value |-> Undef, message |-> <<>>]
NoResult == [kind |-> "none", value |-> Undef, message |-> <<>>]

StatusStr(s) ==
    CASE s = 200 -> "200"
      [] s = 404 -> "404"
      [] s = 500 -> "500"

StatusText(s) ==
    CASE s = 200 -> "OK"
      [] s = 404 -> "Not Found"
      [] s = 500 -> "Internal Server Error"

\* messages are sequences of text parts; template literals concatenate them
MsgFetchFailed == <<"Failed to fetch">>
MsgJsonParse == <<"Unexpected token in JSON">>
MsgNullProperty == <<"Cannot read properties of null">>
MsgHttpError(resp) == <<"Erro HTTP: ", StatusStr(resp.status), " - ", StatusText(resp.status)>>
MsgNoResults == <<"Resposta da API nao contem array de produtos valido">>
MsgFetchProducts(inner) == <<"Falha ao carregar produtos: ">> \o inner
MsgNoService == <<"Servico da API nao esta disponivel">>
MsgNoConnection == <<"Nao foi possivel conectar com a API. Verifique sua conexao ou configuracao.">>
MsgNoProducts == <<"Nenhum produto publico encontrado na API">>
MsgNoValidProducts == <<"Nenhum produto valido encontrado">>
MsgFileHttp(resp) == <<"HTTP error! status: ", StatusStr(resp.status)>>
MsgFileInvalid == <<"Dados do arquivo JSON sao invalidos">>
\* the message of the catch block without the reason the API failed for
MsgBothFailedJsonOnly(apiErr, jsonErr) ==
    <<"API indisponivel: ">> \o <<". Arquivo local tambem falhou: ">> \o jsonErr

MsgBothFailed(apiErr, jsonErr) ==
    <<"API indisponivel: ">> \o apiErr \o <<". Arquivo local tambem falhou: ">> \o jsonErr

\* ------------------------------------------------------------------------
\* ApiService: the asynchronous methods, one operator per awaited step
\* ------------------------------------------------------------------------
\* testConnection() without its catch block: a failed fetch is thrown to the caller
TestConnectionNoCatch(resp) ==
    IF resp.kind = "netfail" THEN Throw(MsgFetchFailed)
    ELSE Return(Bool(Ok(resp)))

\* testConnection(): the fetch settles with resp
TestConnection(resp) ==
    IF resp.kind = "netfail" THEN Return(Bool(FALSE))
    ELSE Return(Bool(Ok(resp)))

\* a catch block of fetchProducts that returns an empty list instead of throwing
FetchProductsCatchSwallow(r) ==
    IF r.kind = "throw" THEN Return(Arr(<<>>)) ELSE r

\* the catch block of fetchProducts wraps every error and throws again
FetchProductsCatch(r) ==
    IF r.kind = "throw" THEN Throw(MsgFetchProducts(r.message)) ELSE r

\* fetchProducts(): the fetch settles with resp
FetchProductsOnResponse(resp) ==
    FetchProductsCatch(
        IF resp.kind = "netfail" THEN Throw(MsgFetchFailed)
        ELSE IF ~Ok(resp) THEN Throw(MsgHttpError(resp))
        ELSE Continue)

\* fetchProducts() with a transformProduct that has no try/catch and throws on a
\* row that is not valid: one such row fails the whole batch
FetchProductsOnBodyAbort(b) ==
    FetchProductsCatch(
        IF b.kind = "unparsable" THEN Throw(MsgJsonParse)
        ELSE IF b.data.t \in {"null", "undefined"} THEN Throw(MsgNullProperty)
        ELSE IF ~Truthy(b.data.results) \/ ~IsArray(b.data.results) THEN Throw(MsgNoResults)
        ELSE IF \E i \in 1..Len(b.data.results.v) :
                    TransformProduct(b.data.results.v[i]).t = "null"
             THEN Throw(MsgNullProperty)
        ELSE Return(Arr([i \in 1..Len(b.data.results.v) |->
                            TransformProduct(b.data.results.v[i])])))

\* fetchProducts(): response.json() settles with b
FetchProductsOnBody(b) ==
    FetchProductsCatch(
        IF b.kind = "unparsable" THEN Throw(MsgJsonParse)
        ELSE IF b.data.t \in {"null", "undefined"} THEN Throw(MsgNullProperty)
        ELSE IF ~Truthy(b.data.results) \/ ~IsArray(b.data.results) THEN Throw(MsgNoResults)
        ELSE Return(Arr([i \in 1..Len(b.data.results.v) |->
                            TransformProduct(b.data.results.v[i])])))

\* the catch block of fetchProductById logs the error and returns null
FetchProductByIdCatch(r) ==
    IF r.kind = "throw" THEN Return(Null) ELSE r

\* fetchProductById(): the fetch settles with resp
FetchProductByIdOnResponse(resp) ==
    FetchProductByIdCatch(
        IF resp.kind = "netfail" THEN Throw(MsgFetchFailed)
        ELSE IF ~Ok(resp)
             THEN IF resp.status = 404 THEN Return(Null) ELSE Throw(MsgHttpError(resp))
        ELSE Continue)

\* fetchProductById(): response.json() settles with b
FetchProductByIdOnBody(b) ==
    FetchProductByIdCatch(
        IF b.kind = "unparsable" THEN Throw(MsgJsonParse)
        ELSE LET transformedProduct == TransformProduct(b.data)
             IN IF ~Truthy(transformedProduct) \/ ~Truthy(transformedProduct.public)
                THEN Return(Null)
                ELSE Return(transformedProduct))

\* ------------------------------------------------------------------------
\* ProductCatalog: the pure parts of loadProducts and loadProductsFromJSON
\* ------------------------------------------------------------------------
\* the predicate of apiProducts.filter(...) in loadProducts
IsDisplayable(product) ==
    /\ Truthy(product)
    /\ IsTrue(product.public)
    /\ Truthy(product.title)
    /\ Truthy(product.description)
    /\ GtZero(product.price)

\* a.order || 0, as a fixed-point number
OrderKey(a) == IF a.order.t = "num" THEN a.order.v ELSE 0

\* the comparator (a, b) => (a.order || 0) - (b.order || 0)
CompareOrder(a, b) == OrderKey(a) - OrderKey(b)

\* x goes after every element that does not compare greater than it
RECURSIVE InsertByOrder(_, _)
InsertByOrder(s, x) ==
    IF Len(s) = 0 THEN <<x>>
    ELSE IF CompareOrder(Head(s), x) > 0 THEN <<x>> \o s
    ELSE <<Head(s)>> \o InsertByOrder(Tail(s), x)

\* Array.prototype.sort with CompareOrder: a stable sort (ECMAScript 2019 on; the
\* code's optional chaining needs ECMAScript 2020)
RECURSIVE SortByOrder(_)
SortByOrder(s) ==
    IF Len(s) = 0 THEN <<>>
    ELSE InsertByOrder(SortByOrder(SubSeq(s, 1, Len(s) - 1)), s[Len(s)])

\* the every(...) predicate of validateProductsData
IsFileProduct(product) ==
    /\ Truthy(product)
    /\ TypeOf(product.id) # "undefined"
    /\ TypeOf(product.title) = "string"
    /\ TypeOf(product.description) = "string"
    /\ IsArray(product.gallery)
    /\ TypeOf(product.price) = "number"
    /\ GeZero(product.price)

\* validateProductsData(data)
ValidateProductsData(data) ==
    IF ~Truthy(data) \/ ~IsArray(data.products) THEN FALSE
    ELSE \A i \in 1..Len(data.products.v) : IsFileProduct(data.products.v[i])

\* ------------------------------------------------------------------------
\* ProductCatalog: the pure parts of handleSearch
\* ------------------------------------------------------------------------
\* the term of handleSearch without trim()
NormalizeTermNoTrim(searchTerm) == ToLowerCase(searchTerm)

\* searchTerm.trim().toLowerCase()
NormalizeTerm(searchTerm) == ToLowerCase(Trim(searchTerm))

\* a filter predicate that does not look at the subtitle
MatchesTermNoSubtitle(product, term) ==
    \/ Contains(ToLowerCase(product.title.v), term)
    \/ Contains(ToLowerCase(product.description.v), term)

\* the predicate of this.products.filter(...) in handleSearch
MatchesTerm(product, term) ==
    \/ Contains(ToLowerCase(product.title.v), term)
    \/ Truthy(product.subtitle) /\ Contains(ToLowerCase(product.subtitle.v), term)
    \/ Contains(ToLowerCase(product.description.v), term)

\* what handleSearch assigns to this.filteredProducts
FilterProducts(list, term) ==
    IF Len(term) = 0 THEN list
    ELSE SelectSeq(list, LAMBDA product : MatchesTerm(product, term))

\* what the user types into the search field
TypedValues == {<<" ">>, <<" ", "M", "U">>}

\* the arguments parsePrice is called with
PriceInputs ==
    {Null, Undef, NumI(0), NumI(7), Num(0 - Scale),
     Str(<<>>), Str(<<"1", "0", ",", "5", "0">>), Str(<<"0", ".", "0", "0">>),
     Str(<<"0", ",", "0", "0">>), Str(<<"7">>), Str(<<"-", "5">>),
     Str(<<"a", "b", "c">>), Str(<<"1", "2", "a", "b", "c">>)}

\* ------------------------------------------------------------------------
\* State
\* ------------------------------------------------------------------------
VARIABLES
    apiCall,            \* the ApiService method in progress, or "none"
    apiPc,              \* where it is: "idle", "awaitResponse", "awaitBody", "settled"
    apiResult,          \* how the method settled
    response,           \* the last response the network delivered
    body,               \* the body of that response, once response.json() settled
    apiAvailable,       \* window.ApiService is defined
    products,           \* this.products
    filteredProducts,   \* this.filteredProducts
    isLoading,          \* this.isLoading
    currentSearchTerm,  \* this.currentSearchTerm
    loadingHidden,      \* elements.loading has class hidden
    errorHidden,        \* elements.error has class hidden
    gridHidden,         \* elements.productsGrid has class hidden
    errorText,          \* text of the error panel
    warnings,           \* the api-warning banners in the page, newest first
    pc,                 \* where loadProducts is: "idle", "awaitTest", "awaitFetch",
                        \* "awaitFile", "awaitFileBody"
    connectionTest,     \* loadProducts' connectionTest, Undef before it is set
    apiError,           \* loadProductsFromJSON's apiError
    requests,           \* the network requests of the current load, in order
    dataSource,         \* where this.products was assigned: "none", "api", "file"
    loads,              \* calls of loadProducts that started a load
    ignored,            \* a call of loadProducts returned at once during this load
    inputValue,         \* elements.searchInput.value
    searchTimeout,      \* the timer of the input listener is pending
    searchedSinceInput, \* handleSearch has run since the last input event
    apiArg              \* the argument of the last call of parsePrice

apiVars == <<apiCall, apiPc, apiResult, response, body>>
dataVars == <<products, filteredProducts, currentSearchTerm, dataSource>>
panelVars == <<loadingHidden, errorHidden, gridHidden>>
loadVars == <<isLoading, pc, connectionTest, apiError, requests, loads, ignored>>
countVars == <<loads, ignored>>
searchVars == <<inputValue, searchTimeout, searchedSinceInput>>
vars == <<apiCall, apiPc, apiResult, response, body, apiAvailable, products,
          filteredProducts, isLoading, currentSearchTerm, loadingHidden, errorHidden,
          gridHidden, errorText, warnings, pc, connectionTest, apiError, requests,
          dataSource, loads, ignored, inputValue, searchTimeout, searchedSinceInput,
          apiArg>>

\* the constructor's fields; the page's panels are as the document declares them
Init ==
    /\ apiCall = "none"
    /\ apiPc = "idle"
    /\ apiResult = NoResult
    /\ response = NoResponse
    /\ body = NoBody
    /\ apiAvailable \in BOOLEAN
    /\ products = <<>>
    /\ filteredProducts = <<>>
    /\ isLoading = FALSE
    /\ currentSearchTerm = <<>>
    /\ loadingHidden \in BOOLEAN
    /\ errorHidden \in BOOLEAN
    /\ gridHidden \in BOOLEAN
    /\ errorText = <<>>
    /\ warnings = <<>>
    /\ pc = "idle"
    /\ connectionTest = Undef
    /\ apiError = <<>>
    /\ requests = <<>>
    /\ dataSource = "none"
    /\ loads = 0
    /\ ignored = FALSE
    /\ inputValue = <<>>
    /\ searchTimeout = FALSE
    /\ searchedSinceInput = FALSE
    /\ apiArg = Undef

\* ------------------------------------------------------------------------
\* ApiService: the network settles an awaited step
\* ------------------------------------------------------------------------
\* the method goes on to its next await, or settles with r
ApiStep(r) ==
    IF r.kind = "await"
    THEN /\ apiPc' = "awaitBody"
         /\ apiResult' = NoResult
    ELSE /\ apiPc' = "settled"
         /\ apiResult' = r

TestConnectionResponds ==
    /\ apiCall = "testConnection"
    /\ apiPc = "awaitResponse"
    /\ \E resp \in Responses :
        /\ response' = resp
        /\ ApiStep(TestConnection(resp))
    /\ UNCHANGED <<apiCall, body, apiAvailable, searchVars, apiArg, dataVars, panelVars, loadVars,
                   errorText, warnings>>

FetchProductsResponds ==
    /\ apiCall = "fetchProducts"
    /\ apiPc = "awaitResponse"
    /\ \E resp \in Responses :
        /\ response' = resp
        /\ ApiStep(FetchProductsOnResponse(resp))
    /\ UNCHANGED <<apiCall, body, apiAvailable, searchVars, apiArg, dataVars, panelVars, loadVars,
                   errorText, warnings>>

FetchProductsBody ==
    /\ apiCall = "fetchProducts"
    /\ apiPc = "awaitBody"
    /\ \E b \in AllListBodies :
        /\ body' = b
        /\ ApiStep(FetchProductsOnBody(b))
    /\ UNCHANGED <<apiCall, response, apiAvailable, searchVars, apiArg, dataVars, panelVars, loadVars,
                   errorText, warnings>>

FetchProductByIdResponds ==
    /\ apiCall = "fetchProductById"
    /\ apiPc = "awaitResponse"
    /\ \E resp \in Responses :
        /\ response' = resp
        /\ ApiStep(FetchProductByIdOnResponse(resp))
    /\ UNCHANGED <<apiCall, body, apiAvailable, searchVars, apiArg, dataVars, panelVars, loadVars,
                   errorText, warnings>>

FetchProductByIdBody ==
    /\ apiCall = "fetchProductById"
    /\ apiPc = "awaitBody"
    /\ \E b \in RowBodies :
        /\ body' = b
        /\ ApiStep(FetchProductByIdOnBody(b))
    /\ UNCHANGED <<apiCall, response, apiAvailable, searchVars, apiArg, dataVars, panelVars, loadVars,
                   errorText, warnings>>

\* a caller starts method m: the method runs to its fetch
ApiInvoke(m) ==
    /\ apiCall' = m
    /\ apiPc' = "awaitResponse"
    /\ apiResult' = NoResult
    /\ response' = NoResponse
    /\ body' = NoBody

\* the caller's await takes the settled result
ApiRelease ==
    /\ apiCall' = "none"
    /\ apiPc' = "idle"
    /\ apiResult' = NoResult
    /\ UNCHANGED <<response, body>>

\* ------------------------------------------------------------------------
\* A page script that uses window.ApiService directly (api.js, usage notes)
\* ------------------------------------------------------------------------
CallTestConnection ==
    /\ apiPc = "idle"
    /\ ApiInvoke("testConnection")
    /\ UNCHANGED <<apiAvailable, searchVars, apiArg, dataVars, panelVars, loadVars, errorText, warnings>>

CallFetchProducts ==
    /\ apiPc = "idle"
    /\ ApiInvoke("fetchProducts")
    /\ UNCHANGED <<apiAvailable, searchVars, apiArg, dataVars, panelVars, loadVars, errorText, warnings>>

CallFetchProductById ==
    /\ apiPc = "idle"
    /\ ApiInvoke("fetchProductById")
    /\ UNCHANGED <<apiAvailable, searchVars, apiArg, dataVars, panelVars, loadVars, errorText, warnings>>

CallerResumes ==
    /\ apiPc = "settled"
    /\ ApiRelease
    /\ UNCHANGED <<apiAvailable, searchVars, apiArg, dataVars, panelVars, loadVars, errorText, warnings>>

\* parsePrice is synchronous: the call returns at once
CallParsePrice ==
    /\ apiPc = "idle"
    /\ \E price \in PriceInputs :
        /\ apiArg' = price
        /\ apiResult' = Return(ParsePrice(price))
    /\ apiCall' = "parsePrice"
    /\ apiPc' = "settled"
    /\ UNCHANGED <<response, body, apiAvailable, searchVars, dataVars, panelVars, loadVars,
                   errorText, warnings>>

InitApi == Init /\ apiAvailable

NextApi ==
    \/ CallTestConnection
    \/ CallFetchProducts
    \/ CallFetchProductById
    \/ CallParsePrice
    \/ CallerResumes
    \/ TestConnectionResponds
    \/ FetchProductsResponds
    \/ FetchProductsBody
    \/ FetchProductByIdResponds
    \/ FetchProductByIdBody

SpecApi == InitApi /\ [][NextApi]_vars

\* ------------------------------------------------------------------------
\* ProductCatalog: panels
\* ------------------------------------------------------------------------
\* showLoading()
ShowLoading ==
    /\ loadingHidden' = FALSE
    /\ errorHidden' = TRUE
    /\ gridHidden' = TRUE

\* a showError that sets the message and leaves the error panel hidden
ShowErrorNoPanel(customMessage) ==
    /\ loadingHidden' = TRUE
    /\ errorHidden' = TRUE
    /\ gridHidden' = TRUE
    /\ errorText' = IF Len(customMessage) > 0 THEN customMessage ELSE errorText

\* showError(customMessage)
ShowError(customMessage) ==
    /\ loadingHidden' = TRUE
    /\ errorHidden' = FALSE
    /\ gridHidden' = TRUE
    /\ errorText' = IF Len(customMessage) > 0 THEN customMessage ELSE errorText

\* showProducts(), the last statement of renderProducts()
ShowProducts ==
    /\ loadingHidden' = TRUE
    /\ errorHidden' = TRUE
    /\ gridHidden' = FALSE

\* ------------------------------------------------------------------------
\* ProductCatalog: loadProducts and loadProductsFromJSON
\* A promise that settles runs the code awaiting it in the same turn of the
\* event loop, before any other event: each action below is one network event
\* together with everything loadProducts does until its next await.
\* ------------------------------------------------------------------------
\* loadProducts without its finally block: isLoading stays set
EndLoadKeepsFlag ==
    /\ isLoading' = isLoading
    /\ pc' = "idle"
    /\ ignored' = FALSE

\* the finally block of loadProducts
EndLoad ==
    /\ isLoading' = FALSE
    /\ pc' = "idle"
    /\ ignored' = FALSE

\* fetch(...) sends a request
SendRequest(kind, sent) == requests' = Append(sent, kind)

\* the catch block of loadProducts calls loadProductsFromJSON(error.message),
\* which runs to its fetch of ./data/products.json
StartFallback(message, sent) ==
    /\ apiError' = message
    /\ SendRequest("file", sent)
    /\ pc' = "awaitFile"

\* a catch block of loadProductsFromJSON that also empties the stored products
FallbackFailsClearsData(jsonMessage) ==
    /\ ShowError(MsgBothFailed(apiError, jsonMessage))
    /\ EndLoad
    /\ products' = <<>>
    /\ filteredProducts' = <<>>
    /\ UNCHANGED <<currentSearchTerm, dataSource, warnings>>

\* the catch block of loadProductsFromJSON, then the finally block of loadProducts
FallbackFails(jsonMessage) ==
    /\ ShowError(MsgBothFailed(apiError, jsonMessage))
    /\ EndLoad
    /\ UNCHANGED <<dataVars, warnings>>

\* this.products = list; this.filteredProducts = [...this.products];
\* renderProducts(); updateResultsInfo()
StoreProducts(list, source) ==
    /\ products' = list
    /\ filteredProducts' = list
    /\ dataSource' = source
    /\ ShowProducts
    /\ UNCHANGED currentSearchTerm

\* loadProducts() without the isLoading guard of its first line
LoadProductsReentrant ==
    /\ loads < MaxLoads
    /\ loads' = loads + 1
    /\ isLoading' = TRUE
    /\ ShowLoading
    /\ connectionTest' = Undef
    /\ response' = NoResponse
    /\ body' = NoBody
    /\ IF ~apiAvailable
       THEN StartFallback(MsgNoService, <<>>)
       ELSE /\ SendRequest("probe", <<>>)
            /\ pc' = "awaitTest"
            /\ apiError' = <<>>
    /\ UNCHANGED <<apiCall, apiPc, apiResult, apiAvailable, searchVars, apiArg, dataVars, errorText,
                   warnings, ignored>>

\* loadProducts() is called, by init() or by a click on the retry button, and
\* runs to its first await
LoadProducts ==
    IF isLoading
    THEN /\ ignored' = TRUE
         /\ UNCHANGED <<apiVars, apiAvailable, searchVars, apiArg, dataVars, panelVars, errorText, warnings,
                        isLoading, pc, connectionTest, apiError, requests, loads>>
    ELSE /\ loads < MaxLoads
         /\ loads' = loads + 1
         /\ isLoading' = TRUE
         /\ ShowLoading
         /\ connectionTest' = Undef
         /\ response' = NoResponse
         /\ body' = NoBody
         /\ IF ~apiAvailable
            THEN StartFallback(MsgNoService, <<>>)
            ELSE /\ SendRequest("probe", <<>>)
                 /\ pc' = "awaitTest"
                 /\ apiError' = <<>>
         /\ UNCHANGED <<apiCall, apiPc, apiResult, apiAvailable, searchVars, apiArg, dataVars, errorText,
                        warnings, ignored>>

\* loadProducts without the check of what testConnection returned
ProbeRespondsUnchecked ==
    /\ pc = "awaitTest"
    /\ \E resp \in PageResponses :
        /\ response' = resp
        /\ connectionTest' = TestConnection(resp).value
        /\ SendRequest("list", requests)
        /\ pc' = "awaitFetch"
    /\ UNCHANGED <<apiCall, apiPc, apiResult, body, apiAvailable, searchVars, apiArg, dataVars, panelVars,
                   errorText, warnings, isLoading, apiError, loads, ignored>>

\* the fetch of testConnection settles; loadProducts resumes with its result and
\* calls fetchProducts, or throws into its catch block
ProbeResponds ==
    /\ pc = "awaitTest"
    /\ \E resp \in PageResponses :
        LET r == TestConnection(resp)
        IN /\ response' = resp
           /\ IF r.kind = "throw"
              THEN /\ StartFallback(r.message, requests)
                   /\ UNCHANGED connectionTest
              ELSE /\ connectionTest' = r.value
                   /\ IF ~Truthy(r.value)
                      THEN StartFallback(MsgNoConnection, requests)
                      ELSE /\ SendRequest("list", requests)
                           /\ pc' = "awaitFetch"
                           /\ UNCHANGED apiError
    /\ UNCHANGED <<apiCall, apiPc, apiResult, body, apiAvailable, searchVars, apiArg, dataVars, panelVars,
                   errorText, warnings, isLoading, loads, ignored>>

\* the products loadProducts keeps of what fetchProducts returned
ValidProducts(apiProducts) == SelectSeq(apiProducts.v, IsDisplayable)

\* loadProducts without its two checks of what fetchProducts returned
RejectApiProductsNever(apiProducts) == <<>>

\* the error loadProducts throws on what fetchProducts returned, <<>> if none
RejectApiProducts(apiProducts) ==
    IF ~IsArray(apiProducts) \/ Len(apiProducts.v) = 0 THEN MsgNoProducts
    ELSE IF Len(ValidProducts(apiProducts)) = 0 THEN MsgNoValidProducts
    ELSE <<>>

\* loadProducts after await fetchProducts() settled with r
AfterFetchProducts(r) ==
    LET failure == IF r.kind = "throw" THEN r.message ELSE RejectApiProducts(r.value)
    IN IF Len(failure) > 0
       THEN /\ StartFallback(failure, requests)
            /\ UNCHANGED <<dataVars, panelVars, isLoading, ignored>>
       ELSE /\ StoreProducts(SortByOrder(ValidProducts(r.value)), "api")
            /\ EndLoad
            /\ UNCHANGED <<apiError, requests>>

\* what fetchProducts does with each body the catalog page is run on
ListOutcome == [b \in ListBodies |-> FetchProductsOnBody(b)]

\* the fetch of fetchProducts settles
ListResponds ==
    /\ pc = "awaitFetch"
    /\ \E resp \in PageResponses :
        LET r == FetchProductsOnResponse(resp)
        IN /\ response' = resp
           /\ IF r.kind = "await"
              THEN /\ pc' = "awaitFetchBody"
                   /\ UNCHANGED <<dataVars, panelVars, isLoading, apiError, requests,
                                  ignored>>
              ELSE AfterFetchProducts(r)
    /\ UNCHANGED <<apiCall, apiPc, apiResult, body, apiAvailable, searchVars, apiArg, errorText, warnings,
                   connectionTest, loads>>

\* response.json() of fetchProducts settles
ListBodyArrives ==
    /\ pc = "awaitFetchBody"
    /\ \E b \in ListBodies :
        /\ body' = b
        /\ AfterFetchProducts(ListOutcome[b])
    /\ UNCHANGED <<apiCall, apiPc, apiResult, response, apiAvailable, searchVars, apiArg, errorText,
                   warnings, connectionTest, loads>>

\* loadProductsFromJSON: the fetch of ./data/products.json settles
FileResponds ==
    /\ pc = "awaitFile"
    /\ \E resp \in PageResponses :
        /\ response' = resp
        /\ body' = NoBody
        /\ IF resp.kind = "netfail" THEN FallbackFails(MsgFetchFailed)
           ELSE IF ~Ok(resp) THEN FallbackFails(MsgFileHttp(resp))
           ELSE /\ pc' = "awaitFileBody"
                /\ UNCHANGED <<dataVars, panelVars, errorText, warnings, isLoading,
                               ignored>>
    /\ UNCHANGED <<apiCall, apiPc, apiResult, apiAvailable, searchVars, apiArg, connectionTest,
                   apiError, requests, loads>>

\* loadProductsFromJSON: response.json() settles
FileBodyArrives ==
    /\ pc = "awaitFileBody"
    /\ \E b \in FileBodies :
        /\ body' = b
        /\ IF b.kind = "unparsable" THEN FallbackFails(MsgJsonParse)
           ELSE IF ~ValidateProductsData(b.data) THEN FallbackFails(MsgFileInvalid)
           ELSE /\ StoreProducts(b.data.products.v, "file")
                /\ warnings' = <<apiError>> \o warnings
                /\ EndLoad
                /\ UNCHANGED errorText
    /\ UNCHANGED <<apiCall, apiPc, apiResult, response, apiAvailable, searchVars, apiArg, connectionTest,
                   apiError, requests, loads>>

\* a banner of showApiWarning leaves the page: its 10 second timer, or its close button
WarningRemoved ==
    /\ \E i \in 1..Len(warnings) :
        warnings' = SubSeq(warnings, 1, i - 1) \o SubSeq(warnings, i + 1, Len(warnings))
    /\ UNCHANGED <<apiVars, apiAvailable, searchVars, apiArg, dataVars, panelVars, loadVars, errorText>>

\* ------------------------------------------------------------------------
\* ProductCatalog: search. The listeners are set up by init(), which then calls
\* loadProducts(): no search event comes before the first load has started.
\* ------------------------------------------------------------------------
\* a handleSearch that filters this.products in place
HandleSearchInPlace(searchTerm) ==
    /\ currentSearchTerm' = NormalizeTerm(searchTerm)
    /\ filteredProducts' = FilterProducts(products, NormalizeTerm(searchTerm))
    /\ products' = FilterProducts(products, NormalizeTerm(searchTerm))
    /\ ShowProducts
    /\ searchedSinceInput' = TRUE
    /\ UNCHANGED dataSource

\* handleSearch(searchTerm)
HandleSearch(searchTerm) ==
    /\ currentSearchTerm' = NormalizeTerm(searchTerm)
    /\ filteredProducts' = FilterProducts(products, NormalizeTerm(searchTerm))
    /\ ShowProducts
    /\ searchedSinceInput' = TRUE
    /\ UNCHANGED <<products, dataSource>>

\* clearSearch(), also called by clearAllFilters()
ClearSearch ==
    /\ inputValue' = <<>>
    /\ currentSearchTerm' = <<>>
    /\ filteredProducts' = products
    /\ ShowProducts
    /\ UNCHANGED <<products, dataSource>>

\* the input listener: the user changes the text of the search field
SearchInput ==
    /\ loads > 0
    /\ \E v \in TypedValues :
        /\ v # inputValue
        /\ inputValue' = v
    /\ searchTimeout' = TRUE
    /\ searchedSinceInput' = FALSE
    /\ UNCHANGED <<apiVars, apiAvailable, apiArg, dataVars, panelVars, loadVars,
                   errorText, warnings>>

\* the timer of the input listener fires, 300 ms after the last input event
SearchTimerFires ==
    /\ searchTimeout
    /\ searchTimeout' = FALSE
    /\ HandleSearch(inputValue)
    /\ UNCHANGED <<apiVars, apiAvailable, apiArg, loadVars, errorText, warnings,
                   inputValue>>

\* a click on the search button, or Enter in the search field
SearchRequested ==
    /\ loads > 0
    /\ HandleSearch(inputValue)
    /\ UNCHANGED <<apiVars, apiAvailable, apiArg, loadVars, errorText, warnings,
                   inputValue, searchTimeout>>

\* a click on the clear button of the search field, or on "clear all filters"
ClearSearchClicked ==
    /\ loads > 0
    /\ ClearSearch
    /\ UNCHANGED <<apiVars, apiAvailable, apiArg, loadVars, errorText, warnings,
                   searchTimeout, searchedSinceInput>>

Next ==
    \/ SearchInput
    \/ SearchTimerFires
    \/ SearchRequested
    \/ ClearSearchClicked
    \/ LoadProducts
    \/ ProbeResponds
    \/ ListResponds
    \/ ListBodyArrives
    \/ FileResponds
    \/ FileBodyArrives
    \/ WarningRemoved

Spec == Init /\ [][Next]_vars

\* every awaited network call settles: the fetch and the json() promises of a
\* load are resolved or rejected by the browser
NetworkSettles ==
    /\ WF_vars(ProbeResponds)
    /\ WF_vars(ListResponds)
    /\ WF_vars(ListBodyArrives)
    /\ WF_vars(FileResponds)
    /\ WF_vars(FileBodyArrives)

SpecLive == Spec /\ NetworkSettles

\* ------------------------------------------------------------------------
\* Properties
\* ------------------------------------------------------------------------
\* a load ends with this step
LoadEnds == isLoading /\ ~isLoading'

\* the rows of the results array of a list body
RowsOf(b) == b.data.results.v

\* a row that transformProduct turns into a product
IsGoodRow(row) == ~TransformRaises(row) /\ IsValidProduct(TransformedProduct(row))

\* the products of the rows of a list body that are good, in the order of the rows
GoodProducts(b) ==
    LET good == SelectSeq(RowsOf(b), IsGoodRow)
    IN [i \in 1..Len(good) |-> TransformedProduct(good[i])]

\* the entries of s whose order is k, in the order s has them in
WithOrder(s, k) == SelectSeq(s, LAMBDA x : OrderKey(x) = k)

Ascending(s) == \A i \in 1..(Len(s) - 1) : OrderKey(s[i]) <= OrderKey(s[i + 1])

\* the sequence a load that succeeded took its products from: the good rows of
\* the list body b, or the entries of the fallback document b
LoadedInput(source, b) ==
    IF source = "api" THEN GoodProducts(b) ELSE b.data.products.v

\* C1: a call of loadProducts made while a load (its fallback phase included) has
\* not finished returns without sending a request and without changing products,
\* filteredProducts or the panel that is visible; the load in flight stays the
\* only one
C1_ReentrantCallIgnored ==
    [][(isLoading /\ LoadProducts) =>
        /\ requests' = requests
        /\ products' = products
        /\ filteredProducts' = filteredProducts
        /\ loadingHidden' = loadingHidden
        /\ errorHidden' = errorHidden
        /\ gridHidden' = gridHidden
        /\ isLoading'
        /\ pc' = pc]_vars

\* a call was ignored during the fallback phase of a load
C1_Witness ==
    /\ isLoading
    /\ ignored
    /\ pc = "awaitFileBody"
    /\ requests = <<"probe", "list", "file">>

\* C2: within a load the request of fetchProducts is sent only after the probe of
\* testConnection, and only when testConnection returned true; when it returned
\* false the load requests the fallback file and never calls fetchProducts
C2_FetchOnlyWhenConnected ==
    /\ \A i \in 1..Len(requests) :
           requests[i] = "list" =>
               /\ i > 1
               /\ requests[i - 1] = "probe"
               /\ IsTrue(connectionTest)
    /\ (connectionTest.t = "bool" /\ ~connectionTest.v) => requests = <<"probe", "file">>

\* a load whose connection test returned false went to the fallback file, and the
\* next load, whose test returned true, has called fetchProducts
C2_Witness ==
    /\ pc = "awaitFetch"
    /\ IsTrue(connectionTest)
    /\ requests = <<"probe", "list">>
    /\ \E i \in 1..Len(warnings) : warnings[i] = MsgNoConnection

\* C3: when a load succeeds, by the API or by the fallback file, the stored
\* products are in ascending order of their order field (0 when missing), and
\* products of equal order are in the order the loaded sequence had them in
C3_StoredSequenceSorted ==
    [][(LoadEnds /\ ~gridHidden') =>
        /\ Ascending(products')
        /\ \A i \in 1..Len(products') :
               WithOrder(products', OrderKey(products'[i]))
                   = WithOrder(LoadedInput(dataSource', body'), OrderKey(products'[i]))
        /\ Len(products') = Len(LoadedInput(dataSource', body'))]_vars

\* the product has a non-empty title, a non-empty description, a price above zero
\* and public equal to true
IsCatalogProduct(p) ==
    /\ p.t = "obj"
    /\ p.title.t = "str" /\ Len(p.title.v) > 0
    /\ p.description.t = "str" /\ Len(p.description.v) > 0
    /\ p.price.t = "num" /\ p.price.v > 0
    /\ p.public.t = "bool" /\ p.public.v

\* C4: in every state every product of the filtered set has a non-empty title, a
\* non-empty description, a price above zero and public equal to true, whether
\* the products came from the API or from the fallback file
C4_RenderedProductsValid ==
    \A i \in 1..Len(filteredProducts) : IsCatalogProduct(filteredProducts[i])

\* C5: the sequence fetchProducts returns has no null entry: it is exactly the
\* products of the rows that pass the validity check, the other rows left out
C5_ReturnedSequenceHasNoNull ==
    (apiCall = "fetchProducts" /\ apiPc = "settled" /\ apiResult.kind = "return") =>
        /\ \A i \in 1..Len(apiResult.value.v) : apiResult.value.v[i].t # "null"
        /\ apiResult.value.v = GoodProducts(body)

\* the products of the good rows of each list body the catalog page is run on
PageGoodProducts ==
    [b \in ListBodies |-> IF b.kind = "json" THEN GoodProducts(b) ELSE <<>>]

\* C6: a row that is not valid, or that makes transformProduct raise, never makes
\* fetchProducts fail: when the body of the list arrives, the load stores the
\* product of every good row of the batch and nothing else, and goes to the
\* fallback file only when the batch has no good row (no products, never a
\* failure of fetchProducts)
C6_BadRecordSkipped ==
    [][(pc = "awaitFetchBody" /\ body'.kind = "json") =>
        LET good == PageGoodProducts[body']
        IN IF Len(good) = 0
           THEN /\ pc' = "awaitFile"
                /\ apiError' \in {MsgNoProducts, MsgNoValidProducts}
           ELSE /\ pc' = "idle"
                /\ dataSource' = "api"
                /\ Len(products') = Len(good)
                /\ \A i \in 1..Len(good) :
                       \E j \in 1..Len(products') : products'[j] = good[i]]_vars

\* a batch of a row that raises and a good row was loaded
C6_Witness ==
    /\ pc = "idle"
    /\ dataSource = "api"
    /\ body = Json(Envelope(Arr(<<Null, RowMug>>)))
    /\ products = <<TransformedProduct(RowMug)>>
    /\ ~gridHidden

\* the document has the shape of a fallback file: products is a sequence whose
\* entries have a defined id, a string title, a string description, a gallery
\* that is a sequence and a numeric price that is not negative
HasFileShape(data) ==
    /\ data.t = "obj"
    /\ data.products.t = "arr"
    /\ \A i \in 1..Len(data.products.v) :
           LET e == data.products.v[i]
           IN /\ e.t = "obj"
              /\ e.id.t # "undefined"
              /\ e.title.t = "str"
              /\ e.description.t = "str"
              /\ e.gallery.t = "arr"
              /\ e.price.t = "num" /\ e.price.v >= 0

\* the exchange for the fallback file, of response resp and body b, failed, or
\* delivered a document that has not the shape
FallbackFailed(resp, b) ==
    \/ resp.kind = "netfail"
    \/ resp.kind = "http" /\ ~Ok(resp)
    \/ b.kind = "unparsable"
    \/ b.kind = "json" /\ ~HasFileShape(b.data)

\* the reason the fallback failed for
FallbackReason(resp, b) ==
    IF resp.kind = "netfail" THEN MsgFetchFailed
    ELSE IF ~Ok(resp) THEN <<StatusStr(resp.status)>>
    ELSE IF b.kind = "unparsable" THEN MsgJsonParse
    ELSE MsgFileInvalid

\* C7: when the fetch of the fallback file fails, or its document has not the
\* shape, the load ends with the error panel visible and a message that contains
\* the reason the API failed for and the reason the fallback failed for
C7_BothReasonsShown ==
    [][(pc \in {"awaitFile", "awaitFileBody"} /\ pc' # pc
            /\ FallbackFailed(response', body')) =>
        /\ ~isLoading'
        /\ pc' = "idle"
        /\ ~errorHidden'
        /\ gridHidden'
        /\ loadingHidden'
        /\ Len(apiError') > 0
        /\ Contains(errorText', apiError')
        /\ Contains(errorText', FallbackReason(response', body'))]_vars

\* the API returned no valid product and the fallback document has an entry
\* without id
C7_Witness ==
    /\ pc = "idle"
    /\ ~errorHidden
    /\ apiError = MsgNoValidProducts
    /\ body = Json(Document(Arr(<<FileNoId>>)))
    /\ Contains(errorText, MsgNoValidProducts)
    /\ Contains(errorText, MsgFileInvalid)

\* C8: fetchProductById returns null when the response is 404 or the row is not
\* public, and throws on every other failure: another status that is not ok, a
\* failed request, a body that does not parse
C8_ByIdAbsentOrPropagates ==
    (apiCall = "fetchProductById" /\ apiPc = "settled") =>
        IF response.kind = "http" /\ response.status = 404
        THEN apiResult = Return(Null)
        ELSE IF response.kind = "netfail" \/ ~Ok(response) \/ body.kind = "unparsable"
        THEN apiResult.kind = "throw"
        ELSE (body.data.t = "obj" /\ ~Truthy(body.data.Public)) => apiResult = Return(Null)

\* C9: fetchProducts throws, and returns no sequence, when the response is not
\* ok, when the body has no results array, and when the request fails; the
\* message of the error has the status, or the reason of the failure
C9_FetchProductsFails ==
    (apiCall = "fetchProducts" /\ apiPc = "settled") =>
        /\ response.kind = "netfail" =>
               /\ apiResult.kind = "throw"
               /\ Contains(apiResult.message, MsgFetchFailed)
        /\ (response.kind = "http" /\ ~Ok(response)) =>
               /\ apiResult.kind = "throw"
               /\ Contains(apiResult.message, <<StatusStr(response.status)>>)
        /\ (body.kind = "json" /\ body.data.t = "obj" /\ body.data.results.t # "arr") =>
               /\ apiResult.kind = "throw"
               /\ Contains(apiResult.message, MsgNoResults)

\* fetchProducts has thrown on a body without results array
C9_Witness ==
    /\ apiCall = "fetchProducts"
    /\ apiPc = "settled"
    /\ response = Http(200)
    /\ body = Json(Envelope(Undef))
    /\ apiResult.kind = "throw"

\* C10: testConnection never throws: it returns true exactly when the probe got a
\* response with a status that is ok, and false for any other status and for a
\* request that failed
C10_TestConnectionNeverRaises ==
    (apiCall = "testConnection" /\ apiPc = "settled") =>
        /\ apiResult.kind = "return"
        /\ apiResult.value.t = "bool"
        /\ apiResult.value.v <=> (response.kind = "http" /\ response.status \in 200..299)

\* testConnection has returned false for a request that failed
C10_Witness ==
    /\ apiCall = "testConnection"
    /\ apiPc = "settled"
    /\ response = NetFail
    /\ apiResult = Return(Bool(FALSE))

\* the rows of the list body b give a product that is public and has a title, a
\* description and a price above zero
HasUsableProduct(b) ==
    \E i \in 1..Len(RowsOf(b)) : IsCatalogProduct(TransformProduct(RowsOf(b)[i]))

\* C11: when the connection test succeeded and the list that fetchProducts
\* returns is empty, or has no product that is public with a title, a
\* description and a price above zero, the load stores nothing of it and
\* requests the fallback file
C11_UnusableResultFallsBack ==
    [][(pc = "awaitFetchBody" /\ body'.kind = "json" /\ ~HasUsableProduct(body')) =>
        /\ IsTrue(connectionTest)
        /\ products' = products
        /\ filteredProducts' = filteredProducts
        /\ dataSource' = dataSource
        /\ isLoading'
        /\ pc' = "awaitFile"
        /\ requests' = <<"probe", "list", "file">>
        /\ apiError' \in {MsgNoProducts, MsgNoValidProducts}]_vars

\* the API delivered one row, of price "0.00", and the load waits for the file
C11_Witness ==
    /\ pc = "awaitFile"
    /\ isLoading
    /\ body = Json(Envelope(Arr(<<RowZeroPrice>>)))
    /\ apiError = MsgNoValidProducts
    /\ requests = <<"probe", "list", "file">>

\* a step that runs handleSearch: the timer of the input listener, the search
\* button, Enter
SearchRuns == SearchTimerFires \/ SearchRequested

\* text has t in it, letters compared without regard to case
HasIgnoringCase(text, t) ==
    \E i \in 1..(Len(text) + 1) :
        /\ i + Len(t) - 1 <= Len(text)
        /\ \A k \in 1..Len(t) : LowerChar(text[i + k - 1]) = LowerChar(t[k])

\* the title, the subtitle or the description of p has t in it
FieldHasTerm(p, t) ==
    \/ p.title.t = "str" /\ HasIgnoringCase(p.title.v, t)
    \/ p.subtitle.t = "str" /\ HasIgnoringCase(p.subtitle.v, t)
    \/ p.description.t = "str" /\ HasIgnoringCase(p.description.v, t)

\* s is made of white space only
IsBlank(s) == \A i \in 1..Len(s) : IsSpace(s[i])

\* C12: after handleSearch the filtered products are exactly the products whose
\* title, subtitle or description has the trimmed term in it, without regard to
\* case, in the order of products; a product whose title has the term is in
C12_SearchFiltersByTerm ==
    [][SearchRuns =>
        LET t == Trim(inputValue)
        IN /\ filteredProducts' = SelectSeq(products, LAMBDA p : FieldHasTerm(p, t))
           /\ currentSearchTerm' = ToLowerCase(t)
           /\ \A i \in 1..Len(products) :
                  HasIgnoringCase(products[i].title.v, t) =>
                      \E j \in 1..Len(filteredProducts') :
                          filteredProducts'[j] = products[i]]_vars

\* a search for " MU" has kept the product that has "mug" as its subtitle and
\* dropped the other
C12_Witness ==
    /\ inputValue = <<" ", "M", "U">>
    /\ currentSearchTerm = <<"m", "u">>
    /\ searchedSinceInput
    /\ products = <<TransformedProduct(RowCup), TransformedProduct(RowJar)>>
    /\ filteredProducts = <<TransformedProduct(RowCup)>>

\* C13: after handleSearch with a term that is empty or white space only, the
\* filtered products are the products, the same elements in the same order
C13_BlankTermShowsAll ==
    [][(SearchRuns /\ IsBlank(inputValue)) =>
        /\ filteredProducts' = products
        /\ products' = products
        /\ currentSearchTerm' = <<>>]_vars

\* a search for " " has run on two loaded products
C13_Witness ==
    /\ inputValue = <<" ">>
    /\ searchedSinceInput
    /\ ~searchTimeout
    /\ currentSearchTerm = <<>>
    /\ Len(products) = 2
    /\ filteredProducts = products

\* C14: handleSearch and clearSearch never change products
C14_SearchKeepsProducts ==
    [][(SearchRuns \/ ClearSearchClicked) =>
        /\ products' = products
        /\ dataSource' = dataSource]_vars

\* a search has dropped a product from the filtered products, and products has
\* the two products of the load
C14_Witness ==
    /\ pc = "idle"
    /\ dataSource = "file"
    /\ products = <<FileMug, FileFree>>
    /\ filteredProducts = <<FileMug>>
    /\ currentSearchTerm = <<"m", "u">>

\* C15: a keystroke cancels the pending evaluation, so that a typing pause sees
\* one filter pass at most, whatever keystrokes, Enter presses and clicks on the
\* search button came before: when the timer of the input listener runs
\* handleSearch, handleSearch has not run since the last keystroke
C15_OneFilterPassPerPause ==
    [][SearchTimerFires => ~searchedSinceInput]_vars

\* s is a number written out: a sign or none, digits, and a decimal part or none
\* after a point or a comma
IsNumericText(s) ==
    LET digits == IF Len(s) > 0 /\ s[1] \in {"+", "-"} THEN Tail(s) ELSE s
        seps == {i \in 1..Len(digits) : digits[i] \in {".", ","}}
    IN /\ Cardinality(seps) <= 1
       /\ \A i \in (1..Len(digits)) \ seps : IsDigit(digits[i])
       /\ \E i \in 1..Len(digits) : IsDigit(digits[i])

\* C16: parsePrice gives "10,50" the value 10.5, gives null for "0.00", for 0,
\* for null and undefined and for every string that is not a number, and never
\* returns zero or a negative number
C16_ParsePriceResult ==
    (apiCall = "parsePrice" /\ apiPc = "settled") =>
        /\ apiResult.kind = "return"
        /\ apiArg = Str(<<"1", "0", ",", "5", "0">>) =>
               apiResult.value = Num(10 * Scale + Scale \div 2)
        /\ (apiArg \in {Null, Undef, NumI(0), Str(<<"0", ".", "0", "0">>)}) =>
               apiResult.value = Null
        /\ (apiArg.t = "str" /\ ~IsNumericText(apiArg.v)) => apiResult.value = Null
        /\ apiResult.value.t = "num" => apiResult.value.v > 0

\* the fallback of the load was tried: the API path has failed
PrimaryFailed(sent) == Len(sent) > 0 /\ sent[Len(sent)] = "file"

\* C17: a load ends with the error panel visible exactly when the API path and
\* the fallback have both failed; when the API path fails and the fallback
\* succeeds, the load ends with the grid visible, the products of the file
\* stored, a banner with the reason the API failed for, and no error panel
C17_ErrorOnlyWhenBothFail ==
    [][LoadEnds =>
        /\ ~errorHidden' <=>
               (PrimaryFailed(requests') /\ FallbackFailed(response', body'))
        /\ (PrimaryFailed(requests') /\ ~FallbackFailed(response', body')) =>
               /\ ~gridHidden'
               /\ errorHidden'
               /\ products' = body'.data.products.v
               /\ Len(apiError') > 0
               /\ Len(warnings') = Len(warnings) + 1
               /\ warnings'[1] = apiError']_vars

\* the API had no valid product, the file had one: grid and banner
C17_Witness ==
    /\ pc = "idle"
    /\ ~isLoading
    /\ requests = <<"probe", "list", "file">>
    /\ products = <<FileMug>>
    /\ ~gridHidden
    /\ errorHidden
    /\ warnings = <<MsgNoValidProducts>>

\* C18: when every awaited network call settles, a load that has started ends:
\* isLoading is false again, and of the grid and the error panel exactly one
\* is visible, the loading panel hidden
C18_LoadEnds ==
    isLoading ~> (~isLoading /\ pc = "idle" /\ loadingHidden /\ gridHidden # errorHidden)

\* two loads have ended, the second one accepted after the first
C18_Witness ==
    /\ loads = 2
    /\ ~isLoading
    /\ pc = "idle"
    /\ loadingHidden

\* C19: after a load has ended with the error panel, the error panel stays
\* visible and the grid stays hidden until the next load starts, whatever the
\* search and clear events in between
C19_ErrorPanelStays ==
    [][(loads > 0 /\ ~isLoading /\ ~errorHidden /\ gridHidden /\ ~isLoading') =>
        (~errorHidden' /\ gridHidden')]_vars

\* C20: in every state between two handlers, the filtered products are the
\* products filtered by currentSearchTerm, all of them when the term is empty
C20_FilteredMatchesTerm ==
    filteredProducts = SelectSeq(products, LAMBDA p : FieldHasTerm(p, currentSearchTerm))

\* C21: in every state in which a load is in flight the loading panel is
\* visible and the grid and the error panel are hidden, whatever search, clear
\* and timer events ran since the load started
C21_LoadingPanelWhileLoading ==
    isLoading => (~loadingHidden /\ errorHidden /\ gridHidden)

\* a step of loadProducts or loadProductsFromJSON: each one moves pc
LoadStep == pc' # pc

\* a load ends with both paths failed
LoadFails == LoadEnds /\ PrimaryFailed(requests') /\ FallbackFailed(response', body')

\* a load ends with products stored
LoadSucceeds == LoadEnds /\ ~LoadFails

\* C22: no step of a load that ends with both paths failed changes products,
\* filteredProducts or currentSearchTerm: the only steps that change them are
\* the step that ends a load with products stored, and the search and clear
\* events of the user, which leave products alone
C22_FailedLoadKeepsData ==
    [][/\ (LoadStep /\ ~LoadSucceeds) =>
              UNCHANGED <<products, filteredProducts, currentSearchTerm>>
       /\ ~LoadStep => UNCHANGED products]_vars

\* a second load failed on both paths after the first one stored the file's
\* product and the user searched: product and term are still there
C22_Witness ==
    /\ loads = 2
    /\ pc = "idle"
    /\ ~errorHidden
    /\ products = <<FileMug>>
    /\ filteredProducts = <<FileMug>>
    /\ currentSearchTerm = <<"m", "u">>

\* C23: a load that ends with products stored, from the API or from the
\* fallback file, has stored at least one product, and one that is public with
\* a title, a description and a price above zero
C23_LoadedIsNonEmpty ==
    [][LoadSucceeds =>
        /\ Len(products') > 0
        /\ \E i \in 1..Len(products') : IsCatalogProduct(products'[i])]_vars

====
